---------------------------- MODULE Spec2Model ----------------------------
(* potgun.py: the interior ballistics of a gas cannon.  The script derives *)
(* its parameters from eight inputs, integrates the projectile's motion    *)
(* with odeint, prints one table row per solution until the projectile is  *)
(* beyond the barrel length, and interpolates the muzzle time and velocity *)
(* from three solutions.  Every number of the script is an IEEE-754        *)
(* binary64 value; the model computes with the same values, rounding each  *)
(* operation to nearest, ties to even, and formats them as str.format      *)
(* does, from the exact binary value.  Two library calls are not correctly *)
(* rounded operations: bd**2, which is libm's pow and may return either    *)
(* neighbour of a square close to a rounding tie, and odeint, whose        *)
(* solution of the equations of motion the model computes, to the printed  *)
(* precision, with a Runge-Kutta method on a subdivision of the time grid. *)
(* The solver's own steps and calls of derv are not part of the model.     *)

EXTENDS Integers, Sequences, FiniteSets

VARIABLES
  cfg,     \* the eight inputs of lines 26-33
  par,     \* the parameters derived from them (lines 36-56)
  pc,      \* "odeint", "table", "muzzle", "done" or "error"
  yint,    \* the solutions odeint has produced, yint[i + 1] for time t[i]
  ycur,    \* the integrator's state inside the current grid step
  sub,     \* the integrator's steps taken inside the current grid step
  n,       \* the loop counter of lines 79-100
  mpng,    \* the running maximum of the gauge pressure
  rows,    \* the table rows printed so far
  mz       \* the muzzle summary of lines 103-117

vars == <<cfg, par, pc, yint, ycur, sub, n, mpng, rows, mz>>

\* the number of time points of line 71: len(np.arange(0.0, 0.04, 0.001))
NumSamples == 40

\* the integrator's steps per grid step
SubSteps == 12

----------------------------------------------------------------------------
(* Natural numbers of any size: little-endian sequences of limbs below     *)
(* Base, without high zero limbs.  They carry the 53-bit significands of   *)
(* the script's doubles and the digits of its formatted output.            *)

Base == 2 ^ 15

RECURSIVE BNorm(_)
BNorm(a) ==
  IF a = <<>> THEN a
  ELSE IF a[Len(a)] = 0 THEN BNorm(SubSeq(a, 1, Len(a) - 1))
  ELSE a

RECURSIVE BFromInt(_)
BFromInt(k) == IF k = 0 THEN <<>> ELSE <<k % Base>> \o BFromInt(k \div Base)

RECURSIVE BAddC(_, _, _)
BAddC(a, b, c) ==
  IF a = <<>> /\ b = <<>> THEN (IF c = 0 THEN <<>> ELSE <<c>>)
  ELSE LET x == IF a = <<>> THEN 0 ELSE a[1]
           y == IF b = <<>> THEN 0 ELSE b[1]
           s == x + y + c
       IN  <<s % Base>> \o BAddC(IF a = <<>> THEN a ELSE Tail(a),
                                 IF b = <<>> THEN b ELSE Tail(b),
                                 s \div Base)
BAdd(a, b) == BAddC(a, b, 0)

\* a - b - w for a >= b + w
RECURSIVE BSubC(_, _, _)
BSubC(a, b, w) ==
  IF a = <<>> THEN <<>>
  ELSE LET y == IF b = <<>> THEN 0 ELSE b[1]
           d == a[1] - y - w
       IN  <<d % Base>> \o BSubC(Tail(a), IF b = <<>> THEN b ELSE Tail(b),
                                 IF d < 0 THEN 1 ELSE 0)
BSub(a, b) == BNorm(BSubC(a, b, 0))

RECURSIVE BCmpFrom(_, _, _)
BCmpFrom(a, b, i) ==
  IF i = 0 THEN 0
  ELSE IF a[i] < b[i] THEN -1
  ELSE IF a[i] > b[i] THEN 1
  ELSE BCmpFrom(a, b, i - 1)
BCmp(a, b) ==
  IF Len(a) < Len(b) THEN -1
  ELSE IF Len(a) > Len(b) THEN 1
  ELSE BCmpFrom(a, b, Len(a))

RECURSIVE BMulSmall(_, _, _)
BMulSmall(a, k, c) ==
  IF a = <<>> THEN (IF c = 0 THEN <<>> ELSE <<c>>)
  ELSE LET p == a[1] * k + c
       IN  <<p % Base>> \o BMulSmall(Tail(a), k, p \div Base)

RECURSIVE BMul(_, _)
BMul(a, b) ==
  IF a = <<>> \/ b = <<>> THEN <<>>
  ELSE BNorm(BAdd(BMulSmall(a, b[1], 0), <<0>> \o BMul(a, Tail(b))))

RECURSIVE SmallBitLen(_)
SmallBitLen(k) == IF k = 0 THEN 0 ELSE 1 + SmallBitLen(k \div 2)
BBitLen(a) ==
  IF a = <<>> THEN 0 ELSE 15 * (Len(a) - 1) + SmallBitLen(a[Len(a)])

BIsOdd(a) == a # <<>> /\ a[1] % 2 = 1

BShl(a, k) ==
  IF a = <<>> THEN a
  ELSE [i \in 1..(k \div 15) |-> 0] \o BMulSmall(a, 2 ^ (k % 15), 0)

RECURSIVE BShrBits(_, _)
BShrBits(a, r) ==
  IF a = <<>> THEN a
  ELSE LET hi == IF Len(a) > 1 THEN a[2] % (2 ^ r) ELSE 0
       IN  <<(a[1] \div (2 ^ r)) + hi * 2 ^ (15 - r)>> \o BShrBits(Tail(a), r)
\* floor(a / 2^k)
BShr(a, k) ==
  IF k \div 15 >= Len(a) THEN <<>>
  ELSE BNorm(BShrBits(SubSeq(a, (k \div 15) + 1, Len(a)), k % 15))

\* a / 2^k rounded to the nearest integer, ties to even: q is floor(a / 2^k),
\* c compares the remainder with one half, sticky says that a itself stands
\* for a value slightly above a
RoundsUp(q, c, sticky) == c > 0 \/ (c = 0 /\ (sticky \/ BIsOdd(q)))
RoundUp(q, c, sticky) == IF RoundsUp(q, c, sticky) THEN BAdd(q, <<1>>) ELSE q
RoundQuot(a, k, sticky, q) ==
  RoundUp(q, BCmp(BSub(a, BShl(q, k)), BShl(<<1>>, k - 1)), sticky)
BRoundShr(a, k, sticky) ==
  IF k = 0 THEN a ELSE RoundQuot(a, k, sticky, BShr(a, k))

----------------------------------------------------------------------------
(* IEEE-754 binary64 values <<s, m, e>>: sign s (1 is negative), 53-bit    *)
(* significand m, value (-1)^s * m * 2^e; zero and infinity have an empty  *)
(* significand, nan has sign 2.  Arithmetic rounds to nearest, ties to     *)
(* even.  The exponent is not limited: the script's values stay far from   *)
(* overflow and from the subnormals.                                       *)

NaN == <<2, <<>>, 0>>
Inf(s) == <<s, <<>>, 1>>
FZero(s) == <<s, <<>>, 0>>
FIsNaN(x) == x[1] = 2
FIsInf(x) == x[1] # 2 /\ x[2] = <<>> /\ x[3] = 1
FIsZero(x) == x[1] # 2 /\ x[2] = <<>> /\ x[3] = 0
FIsFinite(x) == ~FIsNaN(x) /\ ~FIsInf(x)

\* a rounded significand of 54 bits is 2^53
FCarry(s, q, e) ==
  IF BBitLen(q) = 54 THEN <<s, BShr(q, 1), e + 1>> ELSE <<s, q, e>>
\* the double nearest to (-1)^s * m * 2^e, m of len bits
FRoundLen(s, m, e, sticky, len) ==
  IF len <= 53 THEN <<s, BShl(m, 53 - len), e - (53 - len)>>
  ELSE FCarry(s, BRoundShr(m, len - 53, sticky), e + (len - 53))
FRound(s, m, e, sticky) ==
  IF m = <<>> THEN FZero(s) ELSE FRoundLen(s, m, e, sticky, BBitLen(m))

FFromInt(k) == FRound(IF k < 0 THEN 1 ELSE 0,
                      BFromInt(IF k < 0 THEN -k ELSE k), 0, FALSE)

FNeg(x) == IF FIsNaN(x) THEN x ELSE <<1 - x[1], x[2], x[3]>>
FAbs(x) == IF FIsNaN(x) THEN x ELSE <<0, x[2], x[3]>>

FMul(x, y) ==
  IF FIsNaN(x) \/ FIsNaN(y) THEN NaN
  ELSE IF FIsInf(x) \/ FIsInf(y)
       THEN (IF FIsZero(x) \/ FIsZero(y) THEN NaN ELSE Inf((x[1] + y[1]) % 2))
  ELSE IF FIsZero(x) \/ FIsZero(y) THEN FZero((x[1] + y[1]) % 2)
  ELSE FRound((x[1] + y[1]) % 2, BMul(x[2], y[2]), x[3] + y[3], FALSE)

\* the largest q with q * d <= r, at or below the estimate q
RECURSIVE QFix(_, _, _)
QFix(r, d, q) ==
  IF q = 0 THEN 0
  ELSE IF BCmp(BMulSmall(d, q, 0), r) > 0 THEN QFix(r, d, q - 1)
  ELSE q

\* floor(r / d) for r < d * Base and the high limb of d at least Base / 2,
\* estimated from the high limbs
QDigit(r, d) ==
  LET L   == Len(d)
      top == (IF Len(r) > L THEN r[L + 1] * Base ELSE 0)
               + (IF Len(r) >= L THEN r[L] ELSE 0)
      est == top \div d[L]
  IN  QFix(r, d, IF est > Base - 1 THEN Base - 1 ELSE est)

\* long division of the limbs a[1..i] into the remainder r: <<quotient,
\* remainder # 0>>
RECURSIVE LongDiv(_, _, _, _, _)
LongSub(a, i, d, r1, q, qd) ==
  LongDiv(a, i - 1, d, BSub(r1, BMulSmall(d, qd, 0)), <<qd>> \o q)
LongStep(a, i, d, r1, q) == LongSub(a, i, d, r1, q, QDigit(r1, d))
LongDiv(a, i, d, r, q) ==
  IF i = 0 THEN <<BNorm(q), r # <<>>>>
  ELSE LongStep(a, i, d, BNorm(<<a[i]>> \o r), q)

\* x / y from the quotient of the significands, 56 bits or more
FQuotRound(s, qr, e) == FRound(s, qr[1], e, qr[2])
FQuot(s, a, d, e) == FQuotRound(s, LongDiv(a, Len(a), d, <<>>, <<>>), e)
\* a zero divisor gives inf or nan, as it does for numpy's float64 (lines
\* 64, 91 and the interpolation); the divisors of lines 40-55, where Python
\* would raise ZeroDivisionError, are never zero
FDiv(x, y) ==
  IF FIsNaN(x) \/ FIsNaN(y) THEN NaN
  ELSE IF FIsInf(x) THEN (IF FIsInf(y) THEN NaN ELSE Inf((x[1] + y[1]) % 2))
  ELSE IF FIsInf(y) THEN FZero((x[1] + y[1]) % 2)
  ELSE IF FIsZero(y)
       THEN (IF FIsZero(x) THEN NaN ELSE Inf((x[1] + y[1]) % 2))
  ELSE IF FIsZero(x) THEN FZero((x[1] + y[1]) % 2)
  ELSE FQuot((x[1] + y[1]) % 2, BShl(x[2], 63), BShl(y[2], 7),
             x[3] - y[3] - 56)

\* the sum of (-1)^sx * mx * 2^e and (-1)^sy * my * 2^e, c comparing mx
\* with my
FAddAligned(sx, sy, mx, my, e, c) ==
  IF sx # sy /\ c = 0 THEN FZero(0)
  ELSE FRound(IF sx = sy \/ c > 0 THEN sx ELSE sy,
              IF sx = sy THEN BAdd(mx, my)
              ELSE IF c > 0 THEN BSub(mx, my) ELSE BSub(my, mx),
              e, FALSE)
FAddShifted(sx, sy, mx, my, e) ==
  FAddAligned(sx, sy, mx, my, e, BCmp(mx, my))
FAdd(x, y) ==
  IF FIsNaN(x) \/ FIsNaN(y) THEN NaN
  ELSE IF FIsInf(x) THEN (IF FIsInf(y) /\ x[1] # y[1] THEN NaN ELSE x)
  ELSE IF FIsInf(y) THEN y
  ELSE IF FIsZero(x) /\ FIsZero(y) THEN FZero(IF x[1] = 1 /\ y[1] = 1 THEN 1 ELSE 0)
  ELSE IF FIsZero(x) THEN y
  ELSE IF FIsZero(y) THEN x
  ELSE IF x[3] - y[3] > 64 THEN x
  ELSE IF y[3] - x[3] > 64 THEN y
  ELSE IF x[3] < y[3]
       THEN FAddShifted(x[1], y[1], x[2], BShl(y[2], y[3] - x[3]), x[3])
       ELSE FAddShifted(x[1], y[1], BShl(x[2], x[3] - y[3]), y[2], y[3])

FSub(x, y) == FAdd(x, FNeg(y))

\* -1, 0, 1 as x is below, equal to or above y (neither is nan; two
\* 53-bit significands of one sign compare by exponent, then by significand)
FSign(z) == IF FIsZero(z) THEN 0 ELSE IF z[1] = 1 THEN -1 ELSE 1
FCmpMag(x, y) ==
  IF FIsInf(x) THEN (IF FIsInf(y) THEN 0 ELSE 1)
  ELSE IF FIsInf(y) THEN -1
  ELSE IF x[3] # y[3] THEN (IF x[3] < y[3] THEN -1 ELSE 1)
  ELSE BCmp(x[2], y[2])
FCmp(x, y) ==
  IF FSign(x) # FSign(y) THEN (IF FSign(x) < FSign(y) THEN -1 ELSE 1)
  ELSE IF FSign(x) = 0 THEN 0
  ELSE FSign(x) * FCmpMag(x, y)

\* comparisons with nan are false
FLt(x, y) == ~FIsNaN(x) /\ ~FIsNaN(y) /\ FCmp(x, y) < 0
FLe(x, y) == ~FIsNaN(x) /\ ~FIsNaN(y) /\ FCmp(x, y) <= 0
FGt(x, y) == ~FIsNaN(x) /\ ~FIsNaN(y) /\ FCmp(x, y) > 0
FEq(x, y) == ~FIsNaN(x) /\ ~FIsNaN(y) /\ FCmp(x, y) = 0

\* the double nearest to the decimal literal num / den
Lit(num, den) == FDiv(FFromInt(num), FFromInt(den))

\* "{:.<d>f}".format(x): the sign and the digits of x rounded to d decimals
\* (the exact binary value, ties to even); the digits <<-1>> stand for
\* "inf" and <<-2>> for "nan"
FmtDigits(a, e) == IF e >= 0 THEN BShl(a, e) ELSE BRoundShr(a, -e, FALSE)
Fmt(x, d) ==
  IF FIsNaN(x) THEN <<0, <<-2>>>>
  ELSE IF FIsInf(x) THEN <<x[1], <<-1>>>>
  ELSE <<x[1], FmtDigits(BMulSmall(x[2], 10 ^ d, 0), x[3])>>

----------------------------------------------------------------------------
(* Inputs (lines 26-33), constants (lines 36-42) and derived parameters    *)
(* (lines 45-56).                                                          *)

zero == FZero(0)
one == FFromInt(1)
thousand == FFromInt(1000)

\* np.pi, the double 0x400921FB54442D18
pi == <<0, <<11544, 10376, 2029, 201>>, -51>>

ps == FFromInt(100000)
ts == Lit(27315, 100)
R == Lit(83144621, 10000000)
cf1 == FDiv(FFromInt(12), Lit(3048, 10000))
cf3 == Lit(68947573, 10000)

\* the script as shipped
Shipped ==
  [mw  |-> FFromInt(85),  bdi |-> Lit(15, 10),   bli |-> FFromInt(40),
   xi  |-> FFromInt(4),   bfi |-> Lit(5, 10),    gvl |-> Lit(336, 100),
   gms |-> FFromInt(30),  gtf |-> FFromInt(400)]

\* the shipped inputs, and the same with inputs edited: a longer initial
\* chamber; a 5 in barrel and a 3 ms injection (the projectile leaves
\* between the second and the third time point); the 2 l in 20 ms and the
\* 60 in barrel of the documented example output; a barrel shorter than
\* the initial chamber, without friction; a barrel as long as the initial
\* chamber; a 400 in barrel, which the projectile does not leave in 40 ms,
\* with a bore diameter whose square is close to a rounding tie
Configs ==
  { Shipped,
    [Shipped EXCEPT !.xi  = FFromInt(5)],
    [Shipped EXCEPT !.bli = FFromInt(5), !.gms = FFromInt(3)],
    [Shipped EXCEPT !.gvl = FFromInt(2), !.gms = FFromInt(20),
                    !.bli = FFromInt(60)],
    [Shipped EXCEPT !.bli = FFromInt(3), !.bfi = zero],
    [Shipped EXCEPT !.bli = FFromInt(4)],
    [Shipped EXCEPT !.bli = FFromInt(400), !.bdi = Lit(2241, 1000)] }

\* x**2 for a finite x # 0.  float.__pow__ is libm's pow(x, 2.0), which is
\* accurate to about 0.52 ulp and not always correctly rounded: when the
\* exact square m * 2^e (cut to 53 bits: q, k bits dropped) is within 1/32
\* ulp of the midpoint of two doubles, either of them may be returned
pow_near_tie(r, k) ==
  IF BCmp(r, BShl(<<1>>, k - 1)) >= 0
  THEN BCmp(BSub(r, BShl(<<1>>, k - 1)), BShl(<<1>>, k - 5)) <= 0
  ELSE BCmp(BSub(BShl(<<1>>, k - 1), r), BShl(<<1>>, k - 5)) <= 0
pow_cut(m, e, k, q) ==
  IF pow_near_tie(BSub(m, BShl(q, k)), k)
  THEN {FRound(0, q, e + k, FALSE), FRound(0, BAdd(q, <<1>>), e + k, FALSE)}
  ELSE {FRound(0, m, e, FALSE)}
pow_exact(m, e, k) == pow_cut(m, e, k, BShr(m, k))
pow_square(m, e) == pow_exact(m, e, BBitLen(m) - 53)
pow2(x) ==
  IF ~FIsFinite(x) \/ FIsZero(x) THEN {FMul(x, x)}
  ELSE pow_square(BMul(x[2], x[2]), 2 * x[3])

mkg(c) == FDiv(c.mw, thousand)
bd(c) == FDiv(c.bdi, cf1)
\* line 47, bd2 a value of bd**2
bs(bd2) == FMul(FDiv(pi, FFromInt(4)), bd2)
bl(c) == FDiv(c.bli, cf1)
gvm(c) == FDiv(c.gvl, Lit(224, 10))
gs1(c) == FDiv(c.gms, thousand)
gvr(c) == FDiv(gvm(c), gs1(c))
gtk(c) == FAdd(FDiv(FSub(c.gtf, FFromInt(32)), Lit(18, 10)), ts)
x0(c) == FDiv(c.xi, cf1)
v0(c, bd2) == FMul(bs(bd2), x0(c))
n0_no_gtk(c, bd2) == FDiv(FMul(ps, v0(c, bd2)), R)
n0(c, bd2) == FDiv(FMul(ps, v0(c, bd2)), FMul(R, gtk(c)))
bf(c) == FMul(c.bfi, cf3)

Params(c, bd2) ==
  [mkg |-> mkg(c), bs |-> bs(bd2), bl |-> bl(c), gvm |-> gvm(c),
   gs1 |-> gs1(c), gvr |-> gvr(c), gtk |-> gtk(c), x0 |-> x0(c),
   v0 |-> v0(c, bd2), n0 |-> n0(c, bd2), bf |-> bf(c)]

\* line 70
y0 == <<zero, par.x0>>

\* line 71: t = np.arange(0.0, 0.04, 0.001); t[i] is i * 0.001
tstep == Lit(1, 1000)
t(i) == FMul(FFromInt(i), tstep)

----------------------------------------------------------------------------
(* The right-hand side of the equations of motion as odeint calls it       *)
(* (lines 59-68).  y = <<velocity, position>>.                             *)

derv_nm(tq) ==
  IF FLt(tq, par.gs1) THEN FAdd(FMul(par.gvr, tq), par.n0) ELSE par.gvm

derv(y, tq) ==
  LET nm   == derv_nm(tq)
      bpa  == FDiv(FMul(FMul(nm, R), par.gtk), FMul(par.bs, y[2]))
      bpg  == FSub(FSub(bpa, ps), par.bf)
      ode0 == FDiv(FMul(bpg, par.bs), par.mkg)
      ode1 == y[1]
  IN  [t |-> tq, y |-> y, nm |-> nm, bpa |-> bpa, bpg |-> bpg,
       ode0 |-> ode0, ode1 |-> ode1]


----------------------------------------------------------------------------
(* odeint(derv, y0, t) (line 73): the solution of y' = derv(y, t) from y0  *)
(* at the times t[i].  The solver is scipy's; the source fixes the         *)
(* equations, the initial state and the grid, not the solver's steps.  The *)
(* model computes the solution to the printed precision: it divides every  *)
(* grid step into SubSteps steps of length h and takes each by Ralston's   *)
(* third-order Runge-Kutta method, whose evaluations of derv lie at t,     *)
(* t + h/2 and t + 3h/4, inside the step, so that none falls on the far    *)
(* side of the end of the injection, where derv is discontinuous.  For the *)
(* inputs of the Example Output (lines 119-149) this gives the recorded    *)
(* run in every printed digit: its 25 rows and its summary.                *)

h == FDiv(tstep, FFromInt(SubSteps))
slope(c) == <<c.ode0, c.ode1>>
\* y + a * k
axpy(y, a, k) == <<FAdd(y[1], FMul(a, k[1])), FAdd(y[2], FMul(a, k[2]))>>
\* h/2 and 3h/4
h2 == FDiv(h, FFromInt(2))
h34 == FDiv(FMul(FFromInt(3), h), FFromInt(4))

rk3_stage3(y, tq, c1, c2) ==
  <<c1, c2, derv(axpy(y, h34, slope(c2)), FAdd(tq, h34))>>
rk3_stage2(y, tq, c1) ==
  rk3_stage3(y, tq, c1, derv(axpy(y, h2, slope(c1)), FAdd(tq, h2)))
\* the three evaluations of derv of the step from y at time tq
rk3_stages(y, tq) == rk3_stage2(y, tq, derv(y, tq))

\* 2 k1 + 3 k2 + 4 k3
rk3_sum(k1, k2, k3) ==
  FAdd(FAdd(FMul(FFromInt(2), k1), FMul(FFromInt(3), k2)),
       FMul(FFromInt(4), k3))
\* the state after the step, cs its three evaluations
rk3_next(y, cs) ==
  <<FAdd(y[1], FMul(FDiv(h, FFromInt(9)),
                    rk3_sum(cs[1].ode0, cs[2].ode0, cs[3].ode0))),
    FAdd(y[2], FMul(FDiv(h, FFromInt(9)),
                    rk3_sum(cs[1].ode1, cs[2].ode1, cs[3].ode1)))>>
\* the time of the integrator's step s of grid step i
tsub(i, s) == FAdd(t(i), FMul(FFromInt(s), h))

----------------------------------------------------------------------------
(* The table loop body (lines 84-100) for sample x at time t[n].           *)

beyond_ge(x) == FLe(par.bl, x[2])
beyond(x) == FLt(par.bl, x[2])

loop_gr(tn) == IF FLt(tn, par.gs1) THEN par.gvr ELSE zero
loop_nm(tn) ==
  IF FLt(tn, par.gs1) THEN FAdd(FMul(par.gvr, tn), par.n0) ELSE par.gvm

new_mpng_last(bpng, old) == bpng
new_mpng(bpng, old) == IF FGt(bpng, old) THEN bpng ELSE old

\* sg3 and sg4 hold the six columns as printed: the sign and the digits
Row(x, i) ==
  LET gr   == loop_gr(t(i))
      nm   == loop_nm(t(i))
      bpna == FDiv(FMul(FMul(nm, R), par.gtk), FMul(par.bs, x[2]))
      bpng == FSub(bpna, ps)
      acc  == FDiv(FMul(bpng, par.bs), par.mkg)
  IN  [i |-> i, t |-> t(i), gr |-> gr, nm |-> nm,
       bpna |-> bpna, bpng |-> bpng, acc |-> acc, vel |-> x[1], pos |-> x[2],
       sg3 |-> <<Fmt(FMul(t(i), thousand), 1), Fmt(gr, 3),
                 Fmt(FDiv(bpng, cf3), 1)>>,
       sg4 |-> <<Fmt(acc, 1), Fmt(x[1], 3), Fmt(x[2], 3)>>]

----------------------------------------------------------------------------
(* Muzzle interpolation (lines 103-109).                                   *)

\* a[i] for a numpy array of length len: negative i counts from the end
PyIndexClamped(i, len) == IF i < 0 THEN i + len ELSE IF i < len THEN i ELSE len - 1
PyIndex(i, len) ==
  IF 0 <= i /\ i < len THEN i
  ELSE IF -len <= i /\ i < 0 THEN i + len
  ELSE -1                                    \* IndexError

lgidx_before(k) == <<k - 3, k - 2, k - 1>>
lgidx(k) == <<k - 2, k - 1, k>>

\* poly1d([1.0, -xk]) / (xj - xk); a zero divisor gives inf or nan
factor(xj, xk) ==
  <<FDiv(one, FSub(xj, xk)), FDiv(FNeg(xk), FSub(xj, xk))>>

\* products of coefficient lists, highest power first: [w] * [a, b] and
\* [a, b] * [c, d]
polymul1(w, q) == <<FMul(w, q[1]), FMul(w, q[2])>>
polymul2(p, q) ==
  <<FMul(p[1], q[1]),
    FAdd(FMul(p[1], q[2]), FMul(p[2], q[1])),
    FMul(p[2], q[2])>>
polyadd(p, q) == <<FAdd(p[1], q[1]), FAdd(p[2], q[2]), FAdd(p[3], q[3])>>

\* scipy.interpolate.lagrange(xs, ws): the sum over j of
\* ws[j] * prod over k # j of poly1d([1.0, -xs[k]]) / (xs[j] - xs[k])
lagrange_term(xs, ws, j) ==
  polymul2(polymul1(ws[j], factor(xs[j], xs[IF j = 1 THEN 2 ELSE 1])),
           factor(xs[j], xs[IF j = 3 THEN 2 ELSE 3]))

lagrange(xs, ws) ==
  polyadd(polyadd(polyadd(<<zero, zero, zero>>, lagrange_term(xs, ws, 1)),
                  lagrange_term(xs, ws, 2)),
          lagrange_term(xs, ws, 3))

\* poly1d.__call__: Horner's rule from zero
polyval(p, at) ==
  FAdd(FMul(FAdd(FMul(FAdd(FMul(zero, at), p[1]), at), p[2]), at), p[3])

muzzle_exv(lgx, lgv) == polyval(lagrange(lgx, lgv), par.bl)

muzzle_ext(lgx, lgt) ==
  FMul(polyval(lagrange(lgx, lgt), par.bl), thousand)

NoMuzzle == [printed |-> FALSE]

----------------------------------------------------------------------------
(* The script as a state machine.                                          *)

Init ==
  /\ cfg \in Configs
  /\ \E bd2 \in pow2(bd(cfg)) : par = Params(cfg, bd2)
  /\ pc = "odeint"
  /\ yint = <<y0>>
  /\ ycur = y0
  /\ sub = 0
  /\ n = 0
  /\ mpng = zero
  /\ rows = <<>>
  /\ mz = NoMuzzle

\* odeint (line 73) takes one step of the integration towards the next time
\* point; the new state is the solution at the next time point when it was
\* the last step of the grid step
OdeintStep ==
  /\ pc = "odeint"
  /\ Len(yint) < NumSamples
  /\ ycur' = rk3_next(ycur, rk3_stages(ycur, tsub(Len(yint) - 1, sub)))
  /\ IF sub + 1 = SubSteps
     THEN sub' = 0 /\ yint' = Append(yint, ycur')
     ELSE sub' = sub + 1 /\ UNCHANGED yint
  /\ UNCHANGED <<cfg, par, pc, n, mpng, rows, mz>>

\* odeint returns; lines 79-80 initialise the table loop
OdeintReturn ==
  /\ pc = "odeint"
  /\ Len(yint) = NumSamples
  /\ pc' = "table"
  /\ n' = 0
  /\ mpng' = zero
  /\ UNCHANGED <<cfg, par, yint, ycur, sub, rows, mz>>

\* lines 82-83: the current position is beyond the barrel length
LoopBreak ==
  /\ pc = "table"
  /\ Len(rows) < Len(yint)
  /\ beyond(yint[Len(rows) + 1])
  /\ pc' = "muzzle"
  /\ UNCHANGED <<cfg, par, yint, ycur, sub, n, mpng, rows, mz>>

\* lines 84-100: print one row
LoopRow ==
  /\ pc = "table"
  /\ Len(rows) < Len(yint)
  /\ ~beyond(yint[Len(rows) + 1])
  /\ LET row == Row(yint[Len(rows) + 1], n)
     IN  /\ mpng' = new_mpng(row.bpng, mpng)
         /\ rows' = Append(rows, row)
  /\ n' = n + 1
  /\ UNCHANGED <<cfg, par, pc, yint, ycur, sub, mz>>

\* line 81: every solution has been visited
LoopExhausted ==
  /\ pc = "table"
  /\ Len(rows) = Len(yint)
  /\ pc' = "muzzle"
  /\ UNCHANGED <<cfg, par, yint, ycur, sub, n, mpng, rows, mz>>

MuzzleIdx == [j \in 1..3 |-> PyIndex(lgidx(n)[j], Len(yint))]

\* lines 103-105 raise IndexError: the script dies with a traceback
MuzzleIndexError ==
  /\ pc = "muzzle"
  /\ \E j \in 1..3 : MuzzleIdx[j] = -1
  /\ pc' = "error"
  /\ UNCHANGED <<cfg, par, yint, ycur, sub, n, mpng, rows, mz>>

\* lines 112-113: sg5 and sg6 hold the four numbers as printed
Summary(idx, lgx, lgv, lgt, exv, ext) ==
  [printed |-> TRUE, idx |-> idx, lgx |-> lgx, lgv |-> lgv, lgt |-> lgt,
   exv |-> exv, ext |-> ext, mpng |-> mpng,
   sg5 |-> <<Fmt(ext, 2), Fmt(FDiv(mpng, cf3), 1)>>,
   sg6 |-> <<Fmt(exv, 3), Fmt(par.bl, 3)>>]

Fits(idx, lgx, lgv, lgt) ==
  Summary(idx, lgx, lgv, lgt, muzzle_exv(lgx, lgv), muzzle_ext(lgx, lgt))

\* lines 103-117: interpolate and print the muzzle parameters
Muzzle ==
  /\ pc = "muzzle"
  /\ \A j \in 1..3 : MuzzleIdx[j] # -1
  /\ mz' = Fits(MuzzleIdx,
                [j \in 1..3 |-> yint[MuzzleIdx[j] + 1][2]],
                [j \in 1..3 |-> yint[MuzzleIdx[j] + 1][1]],
                [j \in 1..3 |-> t(MuzzleIdx[j])])
  /\ pc' = "done"
  /\ UNCHANGED <<cfg, par, yint, ycur, sub, n, mpng, rows>>

Next ==
  \/ OdeintStep
  \/ OdeintReturn
  \/ LoopBreak
  \/ LoopRow
  \/ LoopExhausted
  \/ MuzzleIndexError
  \/ Muzzle

Spec == Init /\ [][Next]_vars

----------------------------------------------------------------------------
(* Vocabulary of the properties.  These read the trajectory directly and   *)
(* use none of the operators of the table loop or of the interpolation.    *)

Complete == pc # "odeint"
LoopEnded == pc \in {"muzzle", "done", "error"}
Finished == pc \in {"done", "error"}

Pos(i) == yint[i + 1][2]
Vel(i) == yint[i + 1][1]
ExitSet == {i \in 0..(Len(yint) - 1) : FLt(par.bl, Pos(i))}
\* the first index whose position is strictly greater than bl, or the
\* number of samples when there is none
ExitK ==
  IF ExitSet = {} THEN Len(yint)
  ELSE CHOOSE i \in ExitSet : \A j \in ExitSet : i <= j
ExitFound == ExitSet # {}

Millis(x) == FMul(x, thousand)
Increasing(f) == FLt(f[1], f[2]) /\ FLt(f[2], f[3])
MaxOf(S) == CHOOSE v \in S : \A w \in S : FLe(w, v)
\* the largest gauge pressure of the first m rows
RowMax(m) == MaxOf({rows[i].bpng : i \in 1..m})
\* the largest of 0.0 and the gauge pressures of the first m rows
RowMaxFromZero(m) == MaxOf({zero} \cup {rows[i].bpng : i \in 1..m})

\* 2^k
Pow2(k) == <<0, BShl(<<1>>, 52), k - 52>>
\* the rounding error of the pressure at the initial state: six operations
\* separate it from ps
PressureTol == FMul(ps, Pow2(-49))
\* an acceleration for a pressure
AccOf(p) == FDiv(FMul(p, par.bs), par.mkg)

----------------------------------------------------------------------------
\* C1: the table holds exactly the samples 0..k-1, k the first index whose
\* position is strictly beyond bl (all samples when there is none): row i
\* pairs t[i] with yint[i], a sample at exactly bl is printed, sample k and
\* the samples after it are not, and n = k when the loop has ended.
C1_TableStopsAtExit ==
  Complete =>
    /\ Len(rows) = n
    /\ n <= ExitK
    /\ \A i \in 1..Len(rows) :
         /\ rows[i].t = t(i - 1)
         /\ rows[i].vel = Vel(i - 1)
         /\ rows[i].pos = Pos(i - 1)
         /\ rows[i].sg3[1] = Fmt(Millis(t(i - 1)), 1)
         /\ rows[i].sg4[2] = Fmt(Vel(i - 1), 3)
         /\ rows[i].sg4[3] = Fmt(Pos(i - 1), 3)
    /\ (LoopEnded => n = ExitK)

C1_Witness ==
  /\ LoopEnded
  /\ ExitFound
  /\ ExitK + 1 < Len(yint)
  /\ n = ExitK
  /\ \E i \in 1..Len(rows) : FEq(rows[i].pos, par.bl)

\* C2: when no sample is beyond bl, the run ends in the error state and
\* the muzzle summary is never printed.
C2_NoExitIsFatal ==
  (Complete /\ ~ExitFound) =>
    /\ ~mz.printed
    /\ (Finished => pc = "error")

C2_Witness == pc = "error" /\ ~ExitFound /\ Len(rows) = Len(yint)

\* C3 (as claimed): with exit index k in {0, 1, 2} the run ends in the error
\* state without a summary, and no sample outside k-2..k is read.
C3_FewSamplesIsFatal ==
  (Finished /\ ExitFound /\ ExitK <= 2) =>
    /\ pc = "error"
    /\ ~mz.printed

\* C4 (as claimed): the moles computed by the table loop, and by derv for
\* the same state and time, never exceed gvm, equal n0 at t = 0 and gvm
\* from the injection duration on, and do not decrease from one table row
\* to the next.
C4_MolesSchedule ==
  \A i \in 1..Len(rows) :
    /\ FLe(rows[i].nm, par.gvm)
    /\ (i = 1 => FEq(rows[i].nm, par.n0))
    /\ (FLe(par.gs1, rows[i].t) => FEq(rows[i].nm, par.gvm))
    /\ (i > 1 => FLe(rows[i - 1].nm, rows[i].nm))
    /\ FLe(derv_nm(rows[i].t), par.gvm)
    /\ (i = 1 => FEq(derv_nm(rows[i].t), par.n0))
    /\ (FLe(par.gs1, rows[i].t) => FEq(derv_nm(rows[i].t), par.gvm))
    /\ (i > 1 => FLe(derv_nm(rows[i - 1].t), derv_nm(rows[i].t)))

\* C5 (as claimed): the acceleration printed in a row is the acceleration
\* derv returns for that row's state and time.
C5_SameAcceleration ==
  \A i \in 1..Len(rows) :
    FEq(rows[i].acc, derv(yint[i], rows[i].t).ode0)

\* C6 (as claimed): after every printed row mpng is the maximum of the gauge
\* pressures of the rows printed so far, and the summary reports the
\* maximum over the printed rows only.
C6_RunningMax ==
  /\ (Len(rows) = 0 => FEq(mpng, zero))
  /\ (Len(rows) > 0 => FEq(mpng, RowMax(Len(rows))))
  /\ ((mz.printed /\ Len(rows) > 0) => FEq(mz.mpng, RowMax(Len(rows))))

\* C6 (amended): mpng starts at 0.0 and after every printed row is the
\* maximum of 0.0 and the gauge pressures of the rows printed so far (hence
\* never below its earlier values); the summary reports that maximum, taken
\* over the printed rows only.
C6_RunningMaxFromZero ==
  /\ FEq(mpng, RowMaxFromZero(Len(rows)))
  /\ \A m \in 0..Len(rows) : FLe(RowMaxFromZero(m), mpng)
  /\ (mz.printed =>
        /\ FEq(mz.mpng, RowMaxFromZero(Len(rows)))
        /\ mz.sg5[2] = Fmt(FDiv(RowMaxFromZero(Len(rows)), cf3), 1))

C6_Witness ==
  /\ mz.printed
  /\ ExitFound
  /\ Len(rows) >= 3
  /\ FLt(rows[1].bpng, zero)
  /\ FLt(zero, mz.mpng)
  /\ FLt(rows[Len(rows)].bpng, mz.mpng)

\* C7: when the exit index k >= 2 is found, both fits use exactly the
\* samples k-2, k-1 and k, and position[k-1] <= bl < position[k].
C7_BracketingSamples ==
  (mz.printed /\ ExitFound /\ ExitK >= 2) =>
    /\ mz.idx = <<ExitK - 2, ExitK - 1, ExitK>>
    /\ mz.lgx = <<Pos(ExitK - 2), Pos(ExitK - 1), Pos(ExitK)>>
    /\ mz.lgv = <<Vel(ExitK - 2), Vel(ExitK - 1), Vel(ExitK)>>
    /\ mz.lgt = <<t(ExitK - 2), t(ExitK - 1), t(ExitK)>>
    /\ FLe(Pos(ExitK - 1), par.bl)
    /\ FLt(par.bl, Pos(ExitK))

C7_Witness ==
  /\ mz.printed
  /\ ExitFound
  /\ ExitK >= 2
  /\ ExitK + 1 < Len(yint)

\* C8: the interpolation samples have strictly increasing positions and
\* times
FitIncreasing ==
  /\ mz.printed
  /\ FIsFinite(mz.ext)
  /\ Increasing(mz.lgx)
  /\ Increasing(mz.lgt)

\* C8 (as claimed): for every trajectory whose interpolation samples are
\* increasing, the exit time lies between t[k-1] and t[k].
C8_ExitTimeBracketed ==
  FitIncreasing =>
    /\ FLe(Millis(t(ExitK - 1)), mz.ext)
    /\ FLe(mz.ext, Millis(t(ExitK)))

\* C9 (as claimed): with gvl = 3.36 and gms = 30.0 the gas-in column reads
\* 4.464 before the 20.0 ms row and 0.000 from it on; in general it reads
\* gvr before the injection duration and zero from it on.
C9_GasInColumn ==
  \A i \in 1..Len(rows) :
    /\ rows[i].sg3[2] =
         (IF FLt(rows[i].t, par.gs1) THEN Fmt(par.gvr, 3) ELSE Fmt(zero, 3))
    /\ ((cfg.gvl = Lit(336, 100) /\ cfg.gms = FFromInt(30)) =>
          rows[i].sg3[2] =
            (IF BCmp(rows[i].sg3[1][2], BFromInt(200)) < 0
             THEN <<0, BFromInt(4464)>> ELSE <<0, <<>>>>))

\* C10 (as claimed): at the initial state the absolute pressure is exactly
\* ps, so the first row reports gauge pressure 0 and acceleration 0, while
\* derv there returns -bf*bs/mkg, negative whenever the friction offset is
\* positive.
C10_InitialState ==
  Len(rows) >= 1 =>
    /\ FEq(rows[1].bpna, ps)
    /\ FEq(rows[1].bpng, zero)
    /\ FEq(rows[1].acc, zero)
    /\ FEq(derv(yint[1], rows[1].t).bpa, ps)
    /\ FEq(derv(yint[1], rows[1].t).ode0, FNeg(AccOf(par.bf)))
    /\ (FLt(zero, par.bf) => FLt(derv(yint[1], rows[1].t).ode0, zero))

\* C10 (amended): at the initial state the absolute pressure is ps up to
\* the rounding of the six operations that compute it (within ps * 2^-49),
\* the same value in the first row and in derv.  The first row's gauge
\* pressure and acceleration are zero up to that rounding, and derv there
\* returns -bf*bs/mkg up to the same rounding, negative whenever the
\* friction offset exceeds it.
C10_InitialStateRounded ==
  Len(rows) >= 1 =>
    LET d == derv(yint[1], rows[1].t)
    IN  /\ yint[1] = y0
        /\ rows[1].t = zero
        /\ rows[1].bpna = d.bpa
        /\ FLe(FAbs(FSub(rows[1].bpna, ps)), PressureTol)
        /\ FLe(FAbs(rows[1].bpng), PressureTol)
        /\ FLe(FAbs(rows[1].acc), AccOf(FMul(FFromInt(2), PressureTol)))
        /\ FLe(FAbs(FAdd(d.ode0, AccOf(par.bf))),
               AccOf(FMul(Pow2(-47), FAdd(ps, par.bf))))
        /\ (FLt(PressureTol, par.bf) => FLt(d.ode0, zero))

C10_Witness ==
  /\ Len(rows) >= 1
  /\ FLt(rows[1].bpng, zero)
  /\ rows[1].sg3[3] = <<1, <<>>>>
  /\ FLt(PressureTol, par.bf)
  /\ FLt(derv(yint[1], rows[1].t).ode0, zero)

====
